---- MODULE Spec2Model ----
(***************************************************************************)
(* util/lxf_rk2.py: the two-stage (predictor-corrector) Lax-Friedrichs     *)
(* finite-volume scheme for q_t + (q(1-q))_x = 0 with minmod slopes, on a  *)
(* grid of m physical cells and two ghost cells on each side.              *)
(*                                                                         *)
(* Arithmetic.  The script computes in floating point; the model computes  *)
(* each floating-point operation by the exact rational operation it        *)
(* approximates.  A number is a record [n, d] in lowest terms, d > 0.      *)
(* Arrays are functions on 0..len-1, indexed as the numpy arrays are.      *)
(*                                                                         *)
(* Storage.  numpy arrays are objects.  Q, Qnew and Qstar are references   *)
(* (object ids) into heap, so that "Q = Qnew.copy()", the in-place slice   *)
(* assignments and "QQ.append(Q)" keep their aliasing.                     *)
(***************************************************************************)
EXTENDS Integers, Sequences, FiniteSets

\* Largest number of physical cells m the model runs (the script sets m = 100).
MaxM == 3

\* The exact arithmetic keeps every numerator within TLC's integers as long
\* as a time step starts from an array whose common denominator is at most
\* MaxDen; a time step is only taken from such an array.
MaxDen == 4

\* Largest m run from the bumps supported away from the boundary.
MaxBumpM == 5

VARIABLES
  m,        \* number of physical cells                         (line 15)
  Q0,       \* the initial condition as evaluated on the grid   (line 23)
  heap,     \* object id -> array: the numpy arrays behind Q, Qnew, Qstar
  Q,        \* reference: the current state                     (lines 23, 60)
  Qnew,     \* reference: the corrector buffer                  (line 24)
  Qstar,    \* reference: the predictor buffer                  (line 25)
  sigma,    \* slope array                                      (lines 26, 37, 50)
  dQplus,   \* forward differences buffer                       (line 28)
  dQminus,  \* backward differences buffer                      (line 29)
  F,        \* flux buffer                                      (line 30)
  QQ,       \* History: sequence of references                  (line 31)
  t,        \* time                                             (line 19)
  n,        \* completed passes of the loop body               (lines 33-64)
  pc        \* position in the script

vars == <<m, Q0, heap, Q, Qnew, Qstar, sigma, dQplus, dQminus, F, QQ, t, n, pc>>

----------------------------------------------------------------------------
\* Exact rational arithmetic standing for the float operators + - * / abs
\* sign minimum maximum <.

Abs(i) == IF i < 0 THEN -i ELSE i

RECURSIVE GCD(_, _)
GCD(a, b) == IF b = 0 THEN a ELSE GCD(b, a % b)

Norm(num, den) ==
  LET g == GCD(Abs(num), den) IN [n |-> num \div g, d |-> den \div g]

Rat(num, den) == Norm(num, den)

Zero == [n |-> 0, d |-> 1]
One  == [n |-> 1, d |-> 1]
Two  == [n |-> 2, d |-> 1]
Half == [n |-> 1, d |-> 2]

RAdd(a, b) ==
  LET g == GCD(a.d, b.d)
      l == (a.d \div g) * b.d
  IN  Norm(a.n * (l \div a.d) + b.n * (l \div b.d), l)

RNeg(a) == [n |-> -a.n, d |-> a.d]

RSub(a, b) == RAdd(a, RNeg(b))

RMul(a, b) ==
  IF a.n = 0 \/ b.n = 0 THEN Zero
  ELSE LET g1 == GCD(Abs(a.n), b.d)
           g2 == GCD(Abs(b.n), a.d)
       IN  [n |-> (a.n \div g1) * (b.n \div g2),
            d |-> (a.d \div g2) * (b.d \div g1)]

RInv(b) == IF b.n > 0 THEN [n |-> b.d, d |-> b.n] ELSE [n |-> -b.d, d |-> -b.n]

RDiv(a, b) == RMul(a, RInv(b))

RLess(a, b) == RSub(a, b).n < 0

RLeq(a, b) == RSub(a, b).n <= 0

RAbs(a) == [n |-> Abs(a.n), d |-> a.d]

RSign(a) == [n |-> IF a.n > 0 THEN 1 ELSE IF a.n < 0 THEN -1 ELSE 0, d |-> 1]

RMin(a, b) == IF RLess(b, a) THEN b ELSE a

RMax(a, b) == IF RLess(a, b) THEN b ELSE a

----------------------------------------------------------------------------
\* Configuration (lines 15-21).

N == m + 4

\* dx = 1./m
dxOf(mm) == RDiv(One, Rat(mm, 1))

dx == dxOf(m)

T == Rat(1, 2)

\* dt = 0.4 * dx
dtOf(mm) == RMul(Rat(2, 5), dxOf(mm))

dt == dtOf(m)

\* while t < T
LoopTest == RLess(t, T)

\* Variant of NextTime: the time advanced by the cell size.
NextTimeDx == RAdd(t, dx)

\* t = t + dt
NextTime == RAdd(t, dt)

x == [i \in 0 .. N - 1 |-> RAdd(RDiv(RMul(Rat(-3, 1), dx), Two), RMul(Rat(i, 1), dx))]

zeros(len) == [i \in 0 .. len - 1 |-> Zero]

\* Values an initial condition takes on the grid, and levels of constant
\* initial conditions.
Values == {Zero, Half, One}

Levels == {Rat(1, 4), Rat(1, 3), Rat(3, 4)}

\* Initial conditions on a grid of mm physical cells: every array over
\* Values, ghost cells included, and the constant arrays at Levels.
InitialConditions(mm) ==
  [0 .. mm + 3 -> Values] \cup {[i \in 0 .. mm + 3 |-> c] : c \in Levels}

\* Bumps supported away from the boundary: zero in the ghost cells and in
\* the first and the last physical cell.
BumpValues == {Zero, Rat(1, 4), Half, Rat(3, 4), One}

BumpConditions(mm) ==
  {[i \in 0 .. mm + 3 |-> IF i \in 3 .. mm THEN b[i] ELSE Zero] :
     b \in [3 .. mm -> BumpValues]}

----------------------------------------------------------------------------
\* The numerical kernels.

\* Variant of f: the flux q*(1+q), not symmetric under q -> 1-q.
fPlus(q) == RMul(q, RAdd(One, q))

f(q) == RMul(q, RSub(One, q))

\* Variant of minmod: the larger magnitude in place of the smaller.
minmodMax(a, b) ==
  RMul(RMul(Half, RAdd(RSign(a), RSign(b))), RMax(RAbs(a), RAbs(b)))

minmod(a, b) == RMul(RMul(Half, RAdd(RSign(a), RSign(b))), RMin(RAbs(a), RAbs(b)))

\* dQplus[:-1] = A[1:]-A[:-1] : the last entry of the buffer is kept.
SetDQplus(buf, A) ==
  [i \in 0 .. N - 1 |-> IF i < N - 1 THEN RSub(A[i + 1], A[i]) ELSE buf[i]]

\* dQminus[1:] = A[1:]-A[:-1] : the first entry of the buffer is kept.
SetDQminus(buf, A) ==
  [i \in 0 .. N - 1 |-> IF i >= 1 THEN RSub(A[i], A[i - 1]) ELSE buf[i]]

\* sigma = minmod(dQplus,dQminus)/dx
Slopes(dp, dm) == [i \in 0 .. N - 1 |-> RDiv(minmod(dp[i], dm[i]), dx)]

\* qplus = A[1:-1] - sigma[1:-1] * dx/2.0
qplusOf(A, sg) ==
  [j \in 0 .. N - 3 |-> RSub(A[j + 1], RDiv(RMul(sg[j + 1], dx), Two))]

\* qminus = A[:-2] + sigma[:-2] * dx/2.0
qminusOf(A, sg) ==
  [j \in 0 .. N - 3 |-> RAdd(A[j], RDiv(RMul(sg[j], dx), Two))]

\* alpha = np.maximum(np.abs(1.-2.*qplus),np.abs(1.-2.*qminus))
alphaOf(qp, qm) ==
  [j \in 0 .. N - 3 |->
     RMax(RAbs(RSub(One, RMul(Two, qp[j]))), RAbs(RSub(One, RMul(Two, qm[j]))))]

\* Variant of FluxAt: the central flux, without the dissipation term.
FluxAtCentral(qp, qm, al) == RMul(Half, RAdd(f(qp), f(qm)))

\* 0.5*(f(qplus)+f(qminus) - alpha*dx/dt*(qplus-qminus)) at one interface
FluxAt(qp, qm, al) ==
  RMul(Half, RSub(RAdd(f(qp), f(qm)),
                  RMul(RDiv(RMul(al, dx), dt), RSub(qp, qm))))

\* F[1:-1] = ... : the first and the last entry of the buffer are kept.
SetF(buf, A, sg) ==
  LET qp == qplusOf(A, sg)
      qm == qminusOf(A, sg)
      al == alphaOf(qp, qm)
  IN  [i \in 0 .. N - 1 |->
         IF 1 <= i /\ i <= N - 2 THEN FluxAt(qp[i - 1], qm[i - 1], al[i - 1])
         ELSE buf[i]]

\* Variant of Update: the two fluxes added, not subtracted.
UpdateSum(A, Fl, i) == RSub(A[i], RMul(RDiv(dt, dx), RAdd(Fl[i + 1], Fl[i])))

\* A[i] - dt/dx*(F[i+1]-F[i])
Update(A, Fl, i) == RSub(A[i], RMul(RDiv(dt, dx), RSub(Fl[i + 1], Fl[i])))

\* Qstar[2:-2] = Q[2:-2] - dt/dx*(F[3:-1]-F[2:-2])
SetQstar(buf, A, Fl) ==
  [i \in 0 .. N - 1 |-> IF 2 <= i /\ i <= N - 3 THEN Update(A, Fl, i) ELSE buf[i]]

\* Variant of SetQnew: the factor 0.5 on the updated predictor state left out.
SetQnewNoHalf(buf, A, As, Fl) ==
  [i \in 0 .. N - 1 |->
     IF 2 <= i /\ i <= N - 3
     THEN RAdd(RMul(Half, A[i]), Update(As, Fl, i))
     ELSE buf[i]]

\* Qnew[2:-2] = 0.5*Q[2:-2] + 0.5*(Qstar[2:-2] - dt/dx*(F[3:-1]-F[2:-2]))
SetQnew(buf, A, As, Fl) ==
  [i \in 0 .. N - 1 |->
     IF 2 <= i /\ i <= N - 3
     THEN RAdd(RMul(Half, A[i]), RMul(Half, Update(As, Fl, i)))
     ELSE buf[i]]

\* Variant of Extend: no extension.
ExtendNone(A) == A

\* Variant of Extend: A[-2:] = A[-2], the right fill taken one cell too far
\* out.
ExtendShort(A) ==
  LET L == [i \in 0 .. N - 1 |-> IF i < 2 THEN A[2] ELSE A[i]]
  IN  [i \in 0 .. N - 1 |-> IF i >= N - 2 THEN L[N - 2] ELSE L[i]]

\* A[0:2] = A[2] ; A[-2:] = A[-3]
Extend(A) ==
  LET L == [i \in 0 .. N - 1 |-> IF i < 2 THEN A[2] ELSE A[i]]
  IN  [i \in 0 .. N - 1 |-> IF i >= N - 2 THEN L[N - 3] ELSE L[i]]

----------------------------------------------------------------------------
\* The common denominator of an array.

LCM(a, b) == (a \div GCD(a, b)) * b

RECURSIVE DenUpTo(_, _)
DenUpTo(A, k) == IF k < 0 THEN 1 ELSE LCM(A[k].d, DenUpTo(A, k - 1))

DenOf(A) == DenUpTo(A, N - 1)

----------------------------------------------------------------------------
\* The script.

\* Lines 15-31 with the initial condition q0 on mm physical cells.
Start(mm, q0) ==
  /\ m = mm
  /\ Q0 = q0
  /\ heap = <<q0, zeros(mm + 4), zeros(mm + 4)>>
  /\ Q = 1
  /\ Qnew = 2
  /\ Qstar = 3
  /\ sigma = zeros(mm + 4)
  /\ dQplus = zeros(mm + 4)
  /\ dQminus = zeros(mm + 4)
  /\ F = zeros(mm + 4)
  /\ QQ = <<1>>
  /\ t = Zero
  /\ n = 0
  /\ pc = "predictor"

Init == \E mm \in 1 .. MaxM : \E q0 \in InitialConditions(mm) : Start(mm, q0)

InitBump == \E mm \in 1 .. MaxBumpM : \E q0 \in BumpConditions(mm) : Start(mm, q0)

\* Lines 33-46: the loop test and the predictor stage.
Predictor ==
  /\ pc = "predictor"
  /\ LoopTest
  /\ DenOf(heap[Q]) <= MaxDen
  /\ LET A  == heap[Q]
         dp == SetDQplus(dQplus, A)
         dm == SetDQminus(dQminus, A)
         sg == Slopes(dp, dm)
         Fl == SetF(F, A, sg)
     IN  /\ dQplus' = dp
         /\ dQminus' = dm
         /\ sigma' = sg
         /\ F' = Fl
         /\ heap' = [heap EXCEPT ![Qstar] = Extend(SetQstar(heap[Qstar], A, Fl))]
  /\ pc' = "corrector"
  /\ UNCHANGED <<m, Q0, Q, Qnew, Qstar, QQ, t, n>>

\* Variant of Corrector: the slopes of the predictor stage used again (line
\* 50 left out).
CorrectorStaleSlopes ==
  /\ pc = "corrector"
  /\ LET As == heap[Qstar]
         dp == SetDQplus(dQplus, As)
         dm == SetDQminus(dQminus, As)
         Fl == SetF(F, As, sigma)
     IN  /\ dQplus' = dp
         /\ dQminus' = dm
         /\ sigma' = sigma
         /\ F' = Fl
         /\ heap' = [heap EXCEPT ![Qnew] = SetQnew(heap[Qnew], heap[Q], As, Fl)]
  /\ pc' = "advance"
  /\ UNCHANGED <<m, Q0, Q, Qnew, Qstar, QQ, t, n>>

\* Lines 48-57: the corrector stage.
Corrector ==
  /\ pc = "corrector"
  /\ LET As == heap[Qstar]
         dp == SetDQplus(dQplus, As)
         dm == SetDQminus(dQminus, As)
         sg == Slopes(dp, dm)
         Fl == SetF(F, As, sg)
     IN  /\ dQplus' = dp
         /\ dQminus' = dm
         /\ sigma' = sg
         /\ F' = Fl
         /\ heap' = [heap EXCEPT ![Qnew] = SetQnew(heap[Qnew], heap[Q], As, Fl)]
  /\ pc' = "advance"
  /\ UNCHANGED <<m, Q0, Q, Qnew, Qstar, QQ, t, n>>

\* Variant of Advance: "Q = Qnew" without the copy.
AdvanceNoCopy ==
  /\ pc = "advance"
  /\ heap' = [heap EXCEPT ![Qnew] = Extend(heap[Qnew])]
  /\ Q' = Qnew
  /\ QQ' = Append(QQ, Qnew)
  /\ t' = NextTime
  /\ n' = n + 1
  /\ pc' = "predictor"
  /\ UNCHANGED <<m, Q0, Qnew, Qstar, sigma, dQplus, dQminus, F>>

\* Lines 60-64: copy, ghost fill, time increment, append.
Advance ==
  /\ pc = "advance"
  /\ LET new == Len(heap) + 1
     IN  /\ heap' = Append(heap, Extend(heap[Qnew]))
         /\ Q' = new
         /\ QQ' = Append(QQ, new)
  /\ t' = NextTime
  /\ n' = n + 1
  /\ pc' = "predictor"
  /\ UNCHANGED <<m, Q0, Qnew, Qstar, sigma, dQplus, dQminus, F>>

\* Line 33 false, line 66: the loop is left and the history handed over.
Finish ==
  /\ pc = "predictor"
  /\ ~LoopTest
  /\ pc' = "done"
  /\ UNCHANGED <<m, Q0, heap, Q, Qnew, Qstar, sigma, dQplus, dQminus, F, QQ, t, n>>

Next == Predictor \/ Corrector \/ Advance \/ Finish

Spec == Init /\ [][Next]_vars

\* The same script started from the bumps supported away from the boundary.
SpecBump == InitBump /\ [][Next]_vars

----------------------------------------------------------------------------
\* Vocabulary of the properties.

\* The k-th entry of History (History[0] of the script is Hist(1)).
Hist(k) == heap[QQ[k]]

Last == Len(QQ)

Interior == 2 .. N - 3

Const(c) == [i \in 0 .. N - 1 |-> c]

GhostFilled(A) ==
  /\ A[0] = A[2] /\ A[1] = A[2]
  /\ A[N - 1] = A[N - 3] /\ A[N - 2] = A[N - 3]

RECURSIVE SumFrom(_, _, _)
SumFrom(A, lo, hi) == IF lo > hi THEN Zero ELSE RAdd(A[lo], SumFrom(A, lo + 1, hi))

\* The summed interior Q*dx.
Mass(A) == RMul(SumFrom(A, 2, N - 3), dx)

Floor(r) == r.n \div r.d

Ceil(r) == -((-r.n) \div r.d)

\* Python's round(): to the nearest integer, a half to the even one.
Round(r) ==
  LET fl == Floor(r)
      fr == RSub(r, Rat(fl, 1))
  IN  IF RLess(fr, Half) THEN fl
      ELSE IF RLess(Half, fr) THEN fl + 1
      ELSE IF fl % 2 = 0 THEN fl ELSE fl + 1

----------------------------------------------------------------------------
\* C1: started from a constant state Q = c in every cell, ghost cells
\* included, with 0 < c < 1, every snapshot of History equals c in every
\* cell, and so does the predictor state Qstar once a predictor stage has
\* run.
C1_FixedPoint ==
  \A c \in Values \cup Levels :
    (RLess(Zero, c) /\ RLess(c, One) /\ Q0 = Const(c)) =>
      /\ \A k \in 1 .. Last : Hist(k) = Const(c)
      /\ (n >= 1 \/ pc \in {"corrector", "advance"}) => heap[Qstar] = Const(c)

C1_Witness ==
  /\ pc = "done" /\ n >= 2
  /\ Q0 = Const(Rat(1, 4))
  /\ heap[Qstar] = Q0 /\ Hist(Last) = Q0

----------------------------------------------------------------------------
\* The predictor-stage fluxes of a state, as lines 35-42 compute them.
PredictorFlux(A) ==
  SetF(zeros(N), A, Slopes(SetDQplus(zeros(N), A), SetDQminus(zeros(N), A)))

\* The last completed time step had zero flux at both physical-domain edge
\* interfaces, F[2] and F[m+2], in the predictor and in the corrector stage
\* (F still holds the corrector fluxes until the next predictor stage).
ZeroEdgeFluxes ==
  LET Fp == PredictorFlux(Hist(Last - 1))
  IN  /\ Fp[2] = Zero /\ Fp[N - 2] = Zero
      /\ F[2] = Zero /\ F[N - 2] = Zero

\* C2: after a time step whose fluxes at the two physical-domain edge
\* interfaces were zero in both stages, the summed interior Q*dx is what it
\* was before the step.
C2_Conservation ==
  (n >= 1 /\ pc \in {"predictor", "done"} /\ ZeroEdgeFluxes) =>
    Mass(Hist(Last)) = Mass(Hist(Last - 1))

C2_Witness ==
  /\ n >= 1 /\ pc \in {"predictor", "done"} /\ ZeroEdgeFluxes
  /\ \E i \in Interior : Hist(Last)[i] # Hist(Last - 1)[i]
  /\ Mass(Hist(Last)) # Zero
  /\ Mass(Hist(Last)) = Mass(Hist(Last - 1))

----------------------------------------------------------------------------
\* The cell whose centre is the mirror image about x = 0.5 of cell i's.
MirrorIdx(i) == CHOOSE j \in 0 .. N - 1 : RAdd(x[i], x[j]) = One

MirrorSymmetric(A) == \A i \in 0 .. N - 1 : A[i] = A[MirrorIdx(i)]

ComplementSymmetric(A) == \A i \in 0 .. N - 1 : A[i] = RSub(One, A[MirrorIdx(i)])

\* C3 as stated: started from a state that is mirror-symmetric about
\* x = 0.5, every snapshot of History is mirror-symmetric about x = 0.5.
C3_MirrorPreserved ==
  MirrorSymmetric(Q0) => \A k \in 1 .. Last : MirrorSymmetric(Hist(k))

\* C3 amended: started from a state with Q[i] = 1 - Q[m+3-i] for all i (the
\* mirror image about x = 0.5 combined with q -> 1-q, under which
\* f(q) = q(1-q) is symmetric), every snapshot of History has that symmetry.
C3_ComplementPreserved ==
  ComplementSymmetric(Q0) => \A k \in 1 .. Last : ComplementSymmetric(Hist(k))

C3_Witness ==
  /\ n >= 1
  /\ ComplementSymmetric(Q0) /\ ~MirrorSymmetric(Q0)
  /\ Hist(Last) # Q0
  /\ \E i \in Interior : Hist(Last)[i] \notin Values
  /\ ComplementSymmetric(Hist(Last))

----------------------------------------------------------------------------
----------------------------------------------------------------------------
\* C5 as stated: History[0] is the initial condition, each completed step
\* appended one snapshot, and during a later step no snapshot appended by a
\* step is the storage of a working buffer Q, Qstar or Qnew.
C5_NoSharing ==
  /\ Hist(1) = Q0
  /\ Len(QQ) = n + 1
  /\ pc \in {"corrector", "advance"} =>
       \A k \in 2 .. Last : QQ[k] \notin {Q, Qstar, Qnew}

\* C5 amended: History[0] is the initial condition at every point of the
\* run; every step of the script keeps the entries of History and their
\* values; only the end of a time step appends, exactly one snapshot, a new
\* object not stored before; no snapshot is the storage of Qstar or Qnew;
\* the snapshots are distinct objects; and Q refers to the last snapshot,
\* the state the next time step reads.
C5_AppendOnly ==
  [][ /\ Hist(1) = Q0
      /\ heap'[QQ'[1]] = Q0
      /\ \A k \in 1 .. Len(QQ) : QQ'[k] = QQ[k] /\ heap'[QQ[k]] = heap[QQ[k]]
      /\ Len(QQ') = IF pc = "advance" THEN Len(QQ) + 1 ELSE Len(QQ)
      /\ pc = "advance" => QQ'[Len(QQ')] \notin DOMAIN heap
      /\ \A k \in 1 .. Len(QQ') : QQ'[k] \notin {Qstar', Qnew'}
      /\ \A j, k \in 1 .. Len(QQ') : j # k => QQ'[j] # QQ'[k]
      /\ Q' = QQ'[Len(QQ')]
    ]_vars

C5_Witness ==
  /\ n >= 2
  /\ Hist(1) = Q0 /\ Hist(2) # Hist(1) /\ Hist(3) # Hist(2)
  /\ Q = QQ[3]

----------------------------------------------------------------------------
\* C6: for every cell i, with a = dQplus[i] and b = dQminus[i]: minmod(a,b)
\* is 0 when a and b have opposite signs or either is zero; otherwise it has
\* their common sign and magnitude min(|a|,|b|); sigma[i] is minmod(a,b)/dx
\* and |sigma[i]| <= min(|a|,|b|)/dx.
C6_Minmod ==
  \A i \in 0 .. N - 1 :
    LET a  == dQplus[i]
        b  == dQminus[i]
        mm == minmod(a, b)
        lo == RMin(RAbs(a), RAbs(b))
    IN  /\ (a.n >= 0 /\ b.n <= 0) \/ (a.n <= 0 /\ b.n >= 0) => mm = Zero
        /\ (a.n > 0 /\ b.n > 0) => mm = lo
        /\ (a.n < 0 /\ b.n < 0) => mm = RNeg(lo)
        /\ sigma[i] = RDiv(mm, dx)
        /\ RLeq(RAbs(sigma[i]), RDiv(lo, dx))

C6_Witness ==
  /\ \E i \in 0 .. N - 1 :
       /\ dQplus[i].n > 0 /\ dQminus[i].n > 0
       /\ RLess(dQplus[i], dQminus[i])
       /\ sigma[i] = RDiv(dQplus[i], dx)
  /\ \E i \in 0 .. N - 1 :
       /\ dQplus[i].n < 0 /\ dQminus[i].n < 0
       /\ dQplus[i] # dQminus[i]
       /\ sigma[i].n < 0
  /\ \E i \in 0 .. N - 1 :
       /\ dQplus[i].n < 0 /\ dQminus[i].n > 0
       /\ sigma[i] = Zero

----------------------------------------------------------------------------
\* C7: the boundary extension of an array of the run (the corrector result
\* Qnew, the predictor state Qstar, the current state Q) has both left ghost
\* cells equal to the first interior cell and both right ghost cells equal
\* to the last interior cell of the array, has its interior cells, and is
\* its own extension; the extension the script applies to Qstar and to the
\* copy of Qnew is that one.
C7_Extension ==
  /\ \A A \in {heap[Qnew], heap[Qstar], heap[Q]} :
       LET E == Extend(A)
       IN  /\ E[0] = A[2] /\ E[1] = A[2]
           /\ E[N - 1] = A[N - 3] /\ E[N - 2] = A[N - 3]
           /\ \A i \in Interior : E[i] = A[i]
           /\ Extend(E) = E
  /\ (n >= 1 /\ pc \in {"predictor", "done"}) =>
       /\ GhostFilled(heap[Q])
       /\ \A i \in Interior : heap[Q][i] = heap[Qnew][i]
  /\ pc \in {"corrector", "advance"} => GhostFilled(heap[Qstar])

C7_Witness ==
  /\ n >= 1 /\ pc = "predictor"
  /\ heap[Q] # heap[Qnew]
  /\ heap[Q][2] # heap[Q][N - 3]
  /\ heap[Q] = Extend(heap[Qnew])

----------------------------------------------------------------------------
\* C8 as stated: whenever slopes are about to be computed from a state (Q
\* at the start of a predictor stage, the first included; Qstar at the start
\* of a corrector stage), the ghost cells of that state hold the value of
\* the neighbouring interior cell.
C8_GhostsAlwaysFilled ==
  /\ (pc = "predictor" /\ LoopTest) => GhostFilled(heap[Q])
  /\ pc = "corrector" => GhostFilled(heap[Qstar])

\* C8 amended: the same for every corrector stage and for every predictor
\* stage but the first; the first predictor stage computes its slopes from
\* the initial condition as evaluated on the ghost cells.
C8_GhostsFilledAfterFirst ==
  /\ (pc = "predictor" /\ LoopTest /\ n >= 1) => GhostFilled(heap[Q])
  /\ pc = "corrector" => GhostFilled(heap[Qstar])
  /\ n = 0 => heap[Q] = Q0

C8_Witness ==
  /\ pc = "corrector" /\ n >= 1
  /\ GhostFilled(heap[Q]) /\ GhostFilled(heap[Qstar])
  /\ ~GhostFilled(Q0)
  /\ heap[Qstar][2] # heap[Qstar][N - 3]

----------------------------------------------------------------------------
\* The two-stage scheme as pure functions of the state at the start of the
\* stage.  Table(fn) is fn, evaluated once.
Table(fn) == IF fn = fn THEN fn ELSE fn

\* The limited slope of cell i from its two neighbours.
PureSlopes(A) ==
  [i \in 1 .. N - 2 |->
     RDiv(minmod(RSub(A[i + 1], A[i]), RSub(A[i], A[i - 1])), dx)]

\* The flux at the interface between cells i-1 and i.
PureFluxes(A) ==
  LET sl == Table(PureSlopes(A))
  IN  [i \in 2 .. N - 2 |->
         LET qp == RSub(A[i], RDiv(RMul(sl[i], dx), Two))
             qm == RAdd(A[i - 1], RDiv(RMul(sl[i - 1], dx), Two))
             al == RMax(RAbs(RSub(One, RMul(Two, qp))),
                        RAbs(RSub(One, RMul(Two, qm))))
         IN  FluxAt(qp, qm, al)]

\* A - (dt/dx)*dF(A) on the interior cells.
PureStage(A) ==
  LET Fa == Table(PureFluxes(A))
  IN  [i \in Interior |->
         RSub(A[i], RMul(RDiv(dt, dx), RSub(Fa[i + 1], Fa[i])))]

Clamp(i) == IF i < 2 THEN 2 ELSE IF i > N - 3 THEN N - 3 ELSE i

\* Qstar = Q - (dt/dx)*dF(Q), extended to the ghost cells.
PureStar(A) ==
  LET U == Table(PureStage(A))
  IN  [i \in 0 .. N - 1 |-> U[Clamp(i)]]

\* Qnew = 0.5*Q + 0.5*(Qstar - (dt/dx)*dF(Qstar)) on the interior cells.
PureNew(A) ==
  LET U == Table(PureStage(Table(PureStar(A))))
  IN  [i \in Interior |-> RAdd(RMul(Half, A[i]), RMul(Half, U[i]))]

\* C9: with the buffers dQplus, dQminus, sigma, F, Qstar, Qnew reused in
\* place, the predictor state is the pure predictor of the state at the
\* start of the step, the corrector result and the snapshot appended are on
\* every interior cell the pure two-stage result of that state, and Q still
\* is that state while the stages run.
C9_StageIsolation ==
  /\ pc \in {"corrector", "advance"} =>
       /\ heap[Qstar] = PureStar(heap[Q])
       /\ Q = QQ[Last]
       /\ n = 0 => heap[Q] = Q0
  /\ pc = "advance" =>
       \A i \in Interior : heap[Qnew][i] = PureNew(heap[Q])[i]
  /\ (n >= 1 /\ pc \in {"predictor", "done"}) =>
       \A i \in Interior : Hist(Last)[i] = PureNew(Hist(Last - 1))[i]

C9_Witness ==
  /\ n >= 1 /\ pc = "advance"
  /\ \E i \in Interior : heap[Qnew][i] # heap[Q][i]
  /\ \E i \in Interior : heap[Qstar][i] # heap[Q][i]
  /\ \E i \in Interior : heap[Qnew][i] # heap[Qstar][i]
  /\ heap[Q] # Hist(Last - 1)
  /\ \A i \in Interior : heap[Qnew][i] = PureNew(heap[Q])[i]

----------------------------------------------------------------------------
\* C10: with dt = 0.4*dx and initial values in [0, 1], every value of every
\* snapshot of History lies in [0, 1], hence max|Q| <= 10.
C10_Bounded ==
  (\A i \in 0 .. N - 1 : RLeq(Zero, Q0[i]) /\ RLeq(Q0[i], One)) =>
    \A k \in 1 .. Last : \A i \in 0 .. N - 1 :
      /\ RLeq(Zero, Hist(k)[i]) /\ RLeq(Hist(k)[i], One)
      /\ RLeq(RAbs(Hist(k)[i]), Rat(10, 1))

C10_Witness ==
  /\ n >= 1
  /\ \E i \in Interior : RLess(Zero, Hist(Last)[i]) /\ RLess(Hist(Last)[i], Half)
  /\ \E i \in Interior : RLess(Half, Hist(Last)[i]) /\ RLess(Hist(Last)[i], One)

====
